---- MODULE Spec2Model ----
(***************************************************************************)
(* Model of the lottery-result relay scripts: dear_crawler.py (cumulative  *)
(* planner, image source), singapore_crawler.py (sequential planner, PDF   *)
(* source) and lucky_number_updater.py (lucky-number backfill), each a     *)
(* short-lived batch job started again and again by an external scheduler  *)
(* and whose only persisted state is held by the remote results API.       *)
(*                                                                         *)
(* Python strings are sequences of one-character strings ("-" is <<"-">>,  *)
(* "" is <<>>), so that slicing (num[-3:]) is computed, not assumed.       *)
(* Python's None is the token NONE.  A dict read with .get(key) is a       *)
(* record whose missing keys hold NONE.                                    *)
(***************************************************************************)
EXTENDS Integers, Sequences, FiniteSets, TLC

VARIABLES
    job,           \* which script this deployment's scheduler starts
    clock,         \* the wall clock: minutes (UTC) since the model's epoch
    pc,            \* position of the running script ("idle" between runs)
    ist_now,       \* main(): ist_now, the first clock read (local minutes)
    today,         \* today / today_str: the date string of the run
    current_slot,  \* singapore: detect_time_slot()'s result
    resp,          \* kind of the remote API's answer to the state query
    db,            \* the record api_get_today_state returned
    needed,        \* needed / needed_slots: the planner's list
    pdf_links,     \* singapore: number of PDF links found on the listing page
    idx,           \* loop position (index in needed, TIME_ORDER or TYPES)
    attempted,     \* slots whose processing began in this run
    outcome,       \* how the last loop iteration ended
    posts,         \* requests.post calls made by the last loop iteration
    img_url,       \* dear: year/month folder of the image URL last located
    errs,          \* slots whose processing raised in this run
    prevErrs,      \* slots whose processing raised in the previous run, while
                   \* the clock still shows that run's date
    store,         \* remote API: last-three-digit records, by date string
    lucky,         \* remote API: lucky values, by date string and category
    luckyHad       \* lucky value the remote held when the last category began

vars == <<job, clock, pc, ist_now, today, current_slot, resp, db, needed,
          pdf_links, idx, attempted, outcome, posts, img_url, errs, prevErrs, store, lucky, luckyHad>>

---------------------------------------------------------------------------
(* Bounds of the model. *)

\* Number of consecutive local days the clock runs through.
MaxDay == 2

\* Local minutes of the day the clock is sampled at in the run model, per
\* script: midnight, and the minute each of the planner's thresholds is
\* reached (the planners themselves are checked at every minute, below).
LocalSamples ==
    [dear |-> {0, 780, 1080, 1200}, singapore |-> {0, 750, 990, 1230},
     lucky |-> {0, 720}]

\* Winning numbers the recognition step can find (image: 5 digits, PDF: 4+).
DearNumbers == {<<"8", "2", "4", "9", "7">>}
SgNumbers == {<<"1", "0", "3", "4">>}

\* Outcomes of generate_lucky_string's four random digits that are sampled.
LuckyDraws == {<<"9", "8", "0", "7">>, <<"1", "2", "3", "4">>}

---------------------------------------------------------------------------
(* Values. *)

NONE == <<"None">>
PLACEHOLDER == <<"-">>
Slots == {"mor", "day", "evn"}
MinutesPerDay == 24 * 60

\* datetime.now(timezone.utc) + timedelta(hours=5, minutes=30)
get_now_ist(utc) == utc + (5 * 60 + 30)

Hour(now) == (now % MinutesPerDay) \div 60
Minute(now) == (now % MinutesPerDay) % 60
DayIndex(now) == now \div MinutesPerDay

\* The calendar: local day 0 of the model is 2026-01-31, day 1 is 2026-02-01.
Ymd(i) == IF i = 0 THEN [y |-> 2026, m |-> 1, d |-> 31]
          ELSE [y |-> 2026, m |-> 2, d |-> i]

\* now.strftime("%Y-%m-%d"): the formatted date, kept as its three fields.
StrfDate(now) == Ymd(DayIndex(now))

\* ist_now.strftime("/%Y/%m/"): the year/month folder of an upload URL.
StrfDatePath(now) == [y |-> Ymd(DayIndex(now)).y, m |-> Ymd(DayIndex(now)).m]

NoDate == [y |-> 0, m |-> 0, d |-> 0]
NoPath == [y |-> 0, m |-> 0]
Dates == {Ymd(i) : i \in 0..(MaxDay - 1)}
DatePaths == {[y |-> dt.y, m |-> dt.m] : dt \in Dates}

\* {"date": today, "mor": "-", "day": "-", "evn": "-"}
FreshRecord(t) == [date |-> t, mor |-> PLACEHOLDER, day |-> PLACEHOLDER,
                   evn |-> PLACEHOLDER]

NoRecord == FreshRecord(NoDate)

\* num[-k:]
Suffix(num, k) == IF Len(num) <= k THEN num
                  ELSE SubSeq(num, Len(num) - k + 1, Len(num))

---------------------------------------------------------------------------
(* dear_crawler.py: configuration and planner. *)

SLOT_CONFIG == [mor |-> [hour |-> 13], day |-> [hour |-> 18],
                evn |-> [hour |-> 20]]

DearEndpoints == <<"last-digit", "last-two-digit", "last-three-digit">>

\* extract_digits: {"l1": num[-1], "l2": num[-2:], "l3": num[-3:]}
extract_digits(num) == <<Suffix(num, 1), Suffix(num, 2), Suffix(num, 3)>>

\* Faulty variant, for comparison: the planner forgets to look at the recorded values.
get_needed_slots_by_hour_only(d, hour) ==
    (IF hour >= 13 THEN <<"mor">> ELSE <<>>)
    \o (IF hour >= 18 THEN <<"day">> ELSE <<>>)
    \o (IF hour >= 20 THEN <<"evn">> ELSE <<>>)

\* Faulty variant, for comparison: the day slot's threshold is compared with > instead of >=.
get_needed_slots_off_by_one(d, hour) ==
    (IF hour >= 13 /\ d.mor = PLACEHOLDER THEN <<"mor">> ELSE <<>>)
    \o (IF hour > 18 /\ d.day = PLACEHOLDER THEN <<"day">> ELSE <<>>)
    \o (IF hour >= 20 /\ d.evn = PLACEHOLDER THEN <<"evn">> ELSE <<>>)

get_needed_slots(d, hour) ==
    (IF hour >= 13 /\ d.mor = PLACEHOLDER THEN <<"mor">> ELSE <<>>)
    \o (IF hour >= 18 /\ d.day = PLACEHOLDER THEN <<"day">> ELSE <<>>)
    \o (IF hour >= 20 /\ d.evn = PLACEHOLDER THEN <<"evn">> ELSE <<>>)

---------------------------------------------------------------------------
(* singapore_crawler.py: configuration, time resolver and planner. *)

TIME_ORDER == <<<<"12.30", "mor">>, <<"16.30", "day">>, <<"20.30", "evn">>>>

SgApis == <<"last-digit", "last-two-digit", "last-three-digit">>

\* extract_digits_from_pdf_bytes: last_1, last_2, last_3
extract_digits_from_pdf_bytes(num) ==
    <<Suffix(num, 1), Suffix(num, 2), Suffix(num, 3)>>

detect_time_slot(now) ==
    LET current_total_minutes == (Hour(now) * 60) + Minute(now)
    IN  IF current_total_minutes < 750 THEN "None"
        ELSE IF current_total_minutes < 990 THEN "mor"
        ELSE IF current_total_minutes < 1230 THEN "day"
        ELSE "evn"

RECURSIVE ScanSlots(_, _, _)
ScanSlots(d, cur, i) ==
    IF i > Len(TIME_ORDER) THEN <<>>
    ELSE LET slot == TIME_ORDER[i][2]
         IN  (IF d[slot] = PLACEHOLDER THEN <<slot>> ELSE <<>>)
             \o (IF slot = cur THEN <<>> ELSE ScanSlots(d, cur, i + 1))

\* Faulty variant, for comparison: the scan does not stop at the current slot.
slots_to_crawl_no_break(d, cur) == ScanSlots(d, "None", 1)

slots_to_crawl(d, cur) == ScanSlots(d, cur, 1)

\* The minute of the day from which detect_time_slot answers each slot.
SgThreshold == [mor |-> 750, day |-> 990, evn |-> 1230]

\* Position of a slot in the declared order mor, day, evn.
SlotIndex(s) == CHOOSE i \in 1..Len(TIME_ORDER) : TIME_ORDER[i][2] = s

Range(seq) == {seq[i] : i \in 1..Len(seq)}

---------------------------------------------------------------------------
(* The remote results API, as the scripts see it.  It is truthful: it      *)
(* never hides a recorded value and never invents one; it may fail, and    *)
(* it may leave out of an entry the slots it has no value for.             *)

Recorded(st, t) == {s \in Slots : st[t][s] # PLACEHOLDER}

\* The API's entry for date t, with the slots in om not reported.
Entry(st, t, om) ==
    [k \in {"date", "mor", "day", "evn"} |->
        IF k = "date" THEN t ELSE IF k \in om THEN NONE ELSE st[t][k]]

\* A list answer: the entries of the dates that have a recorded value.
EntryList(st, t, om) ==
    LET all == [i \in 1..MaxDay |->
                   Entry(st, Ymd(i - 1), IF Ymd(i - 1) = t THEN om ELSE {})]
    IN  SelectSeq(all, LAMBDA e : Recorded(st, e.date) # {})

\* An answer to the state query: its kind, and the JSON body as a list
\* (kind "list") or as one entry (kind "object").
Response(kind, list, entry) == [kind |-> kind, list |-> list, entry |-> entry]

\* Answers to GET last-three-digit/?date=t.
StateResponses(st, t) ==
    {Response("error", <<>>, NoRecord)}
    \cup (IF Recorded(st, t) = {}
          THEN {Response("notfound", <<>>, NoRecord)} ELSE {})
    \cup {Response("list", EntryList(st, t, om), NoRecord) :
             om \in SUBSET (Slots \ Recorded(st, t))}
    \cup {Response("object", <<>>, Entry(st, t, om)) :
             om \in SUBSET (Slots \ Recorded(st, t))}

\* for entry in data: if entry.get("date") == today: return entry
FindEntry(list, t) ==
    LET hits == SelectSeq(list, LAMBDA e : e.date = t)
    IN  IF hits = <<>> THEN FreshRecord(t) ELSE Head(hits)

\* dear_crawler.api_get_today_state: a 404 is raised by raise_for_status.
DearApiGetTodayState(r, t) ==
    IF r.kind \in {"error", "notfound"} THEN FreshRecord(t)
    ELSE IF r.kind = "list" THEN FindEntry(r.list, t)
    ELSE r.entry

\* singapore_crawler.api_get_today_state: a 404 is answered before
\* raise_for_status.
SgApiGetTodayState(r, t) ==
    IF r.kind = "notfound" THEN FreshRecord(t)
    ELSE IF r.kind = "error" THEN FreshRecord(t)
    ELSE IF r.kind = "list" THEN FindEntry(r.list, t)
    ELSE r.entry

\* What the answer was, for the record of the run.
RespKind(r, t) ==
    IF r.kind # "list" THEN r.kind
    ELSE IF SelectSeq(r.list, LAMBDA e : e.date = t) = <<>> THEN "list_miss"
    ELSE "list_hit"

\* The answers drawn in the run model: the API reports every slot, or none
\* of those it has no value for.
RunResponses(st, t) ==
    {r \in StateResponses(st, t) :
        r.kind \in {"list", "object"} =>
            \/ \A s \in Slots : FindEntry(r.list \o <<r.entry>>, t)[s] # NONE
            \/ \A s \in Slots \ Recorded(st, t) :
                  FindEntry(r.list \o <<r.entry>>, t)[s] = NONE}

\* POST last-three-digit/: the upsert stores the non-placeholder slots.
StoreUpsert(st, payload) ==
    [st EXCEPT ![payload.date] =
        [s \in Slots |-> IF payload[s] # PLACEHOLDER THEN payload[s] ELSE @[s]]]

---------------------------------------------------------------------------
(* Publishing. *)

\* post_data: payload = {"date": today, "mor": "-", ...}; payload[slot] = val
DearPayload(t, slot, val) == [FreshRecord(t) EXCEPT ![slot] = val]

\* Faulty variant, for comparison: the payload starts from the day's record instead of placeholders.
SgPayloadFromRecord(t, slot, value) ==
    [k \in {"date", "mor", "day", "evn"} |->
        IF k = "date" THEN t ELSE IF k = slot THEN value ELSE store[t][k]]

\* post_digit: payload = {"date": today, "mor": "-", ...}; payload[slot] = value
SgPayload(t, slot, value) == [FreshRecord(t) EXCEPT ![slot] = value]

DigitPost(ep, payload) == [api |-> ep, payload |-> payload]
FaxPost(type, t, slot) ==
    [api |-> "fax", payload |-> [type |-> type, date |-> t, time |-> slot]]

\* The requests of post_data / post_digit x3 that are issued when request
\* number fail raises (0: none does): the digit posts 1..min(fail, 3).
DigitPosts(eps, payloads, fail) ==
    [k \in 1..(IF fail \in 1..3 THEN fail ELSE 3) |->
        DigitPost(eps[k], payloads[k])]

---------------------------------------------------------------------------
(* One slot's processing, as a function of what the network, the publisher *)
(* page and the recognition step deliver.                                  *)

Result(o, p, st) == [outcome |-> o, posts |-> p, store |-> st]

\* What one iteration of main()'s loop meets.  page: the slot's page
\* ("error": the fetch raises, "noimg": no matching img tag, "nosrc": the
\* tag has no src, "img"); url: the year/month folder in the image URL;
\* image: the image download; ocr: the number the pattern \d{5} finds, or
\* NONE; fail: which step of post_data raises (0 none, 1..3 a digit post,
\* 4 the JPEG recompression, 5 the snapshot post); accept: whether the API
\* stores the last-three-digit post (its status is not read).
DearEnv(page, url, image, ocr, fail, accept) ==
    [page |-> page, url |-> url, image |-> image, ocr |-> ocr, fail |-> fail,
     accept |-> accept]

\* The cases, each once: a field a case never reads is held at a default.
DearEnvs ==
    {DearEnv(page, NoPath, "ok", NONE, 0, FALSE) :
        page \in {"error", "noimg", "nosrc"}}
    \cup {DearEnv("img", url, "error", NONE, 0, FALSE) : url \in DatePaths}
    \cup {DearEnv("img", url, "ok", NONE, 0, FALSE) : url \in DatePaths}
    \cup {DearEnv("img", url, "ok", ocr, fail, accept) :
             url \in DatePaths, ocr \in DearNumbers, fail \in 0..5,
             accept \in BOOLEAN}

\* post_data(today, slot, digits, image_bytes)
post_data(t, slot, digits, fail, accept, st) ==
    LET payloads == [k \in 1..3 |-> DearPayload(t, slot, digits[k])]
        sent == DigitPosts(DearEndpoints, payloads, fail)
        st2 == IF fail \notin 1..3 /\ accept
               THEN StoreUpsert(st, payloads[3]) ELSE st
        fax == IF fail \in {0, 5} THEN <<FaxPost("dear", t, slot)>> ELSE <<>>
    IN  Result(IF fail = 0 THEN "ok" ELSE "error", sent \o fax, st2)

\* Faulty variant, for comparison: the date gate is missing.
DearProcessNoDateGate(t, path, slot, env, st) ==
    IF env.page = "error" THEN Result("error", <<>>, st)
    ELSE IF env.page = "noimg" THEN Result("no_image", <<>>, st)
    ELSE IF env.page = "nosrc" THEN Result("error", <<>>, st)
    ELSE IF env.image = "error" THEN Result("error", <<>>, st)
    ELSE IF env.ocr = NONE THEN Result("error", <<>>, st)
    ELSE post_data(t, slot, extract_digits(env.ocr), env.fail, env.accept, st)

\* The body of main()'s "for slot in needed" loop.
DearProcess(t, path, slot, env, st) ==
    IF env.page = "error" THEN Result("error", <<>>, st)
    ELSE IF env.page = "noimg" THEN Result("no_image", <<>>, st)
    ELSE IF env.page = "nosrc" THEN Result("error", <<>>, st)
    ELSE IF env.url # path THEN Result("stale", <<>>, st)
    ELSE IF env.image = "error" THEN Result("error", <<>>, st)
    ELSE IF env.ocr = NONE THEN Result("error", <<>>, st)
    ELSE post_data(t, slot, extract_digits(env.ocr), env.fail, env.accept, st)

\* What one iteration of crawl_and_process's loop meets.  pdf: the PDF
\* download; text: the number found after "1st Prize", or NONE; fail: which
\* step raises (0 none, 1..3 a digit post or its raise_for_status, 4 the
\* rasterisation, 5 the snapshot post or its raise_for_status).
SgEnv(pdf, text, fail) == [pdf |-> pdf, text |-> text, fail |-> fail]

SgEnvs ==
    {SgEnv("error", NONE, 0), SgEnv("ok", NONE, 0)}
    \cup {SgEnv("ok", text, fail) : text \in SgNumbers, fail \in 0..5}

\* post_digit x3, then post_image
SgPublish(t, slot, digits, fail, st) ==
    LET payloads == [k \in 1..3 |-> SgPayload(t, slot, digits[k])]
        sent == DigitPosts(SgApis, payloads, fail)
        st2 == IF fail \notin 1..3 THEN StoreUpsert(st, payloads[3]) ELSE st
        fax == IF fail \in {0, 5} THEN <<FaxPost("singapore", t, slot)>>
               ELSE <<>>
    IN  Result(IF fail = 0 THEN "ok" ELSE "error", sent \o fax, st2)

\* The try block of crawl_and_process's loop.
SgProcess(t, slot, env, st) ==
    IF env.pdf = "error" THEN Result("error", <<>>, st)
    ELSE IF env.text = NONE THEN Result("error", <<>>, st)
    ELSE SgPublish(t, slot, extract_digits_from_pdf_bytes(env.text),
                   env.fail, st)

---------------------------------------------------------------------------
(* lucky_number_updater.py *)

TYPES == <<"singapore", "dear">>

\* ", ".join(digits)
generate_lucky_string(digits) ==
    <<digits[1], ",", " ", digits[2], ",", " ", digits[3], ",", " ",
      digits[4]>>

\* Answers to GET luckyNumber/: the request raises, or it returns a status
\* and, with status 200, the stored "lucky" value.
LuckyResponses(value) ==
    {[raised |-> TRUE, status |-> 0, lucky |-> NONE],
     [raised |-> FALSE, status |-> 500, lucky |-> NONE],
     [raised |-> FALSE, status |-> 200, lucky |-> value]}

check_if_exists(r) ==
    IF r.raised THEN FALSE
    ELSE IF r.status = 200
         THEN (r.lucky # NONE /\ r.lucky # <<>>) /\ r.lucky # <<>>
         ELSE FALSE

LuckyPost(type, t, value) ==
    [api |-> "luckyNumber",
     payload |-> [type |-> type, date |-> t, lucky |-> value, active |-> TRUE]]

---------------------------------------------------------------------------
(* The runs. *)

\* The instants the clock of script j is sampled at (UTC minutes; local
\* day 0 begins 5 h 30 min before the epoch).
Instants(j) ==
    {i * MinutesPerDay + m - (5 * 60 + 30) :
        i \in 0..(MaxDay - 1), m \in LocalSamples[j]}

\* Local midnight of day 0.
FirstInstant == 0 - (5 * 60 + 30)

EmptyStore == [t \in Dates |-> [s \in Slots |-> PLACEHOLDER]]
EmptyLucky == [t \in Dates |-> [c \in Range(TYPES) |-> <<>>]]

\* The locals of a run, before its first statement.
NoRun ==
    /\ ist_now = 0
    /\ today = NoDate
    /\ current_slot = "None"
    /\ resp = "none"
    /\ db = NoRecord
    /\ needed = <<>>
    /\ pdf_links = 0
    /\ idx = 0
    /\ attempted = {}
    /\ outcome = "none"
    /\ posts = <<>>
    /\ img_url = NoPath
    /\ errs = {}
    /\ luckyHad = <<>>

\* The same, as the next state's.
ResetRun ==
    /\ ist_now' = 0
    /\ today' = NoDate
    /\ current_slot' = "None"
    /\ resp' = "none"
    /\ db' = NoRecord
    /\ needed' = <<>>
    /\ pdf_links' = 0
    /\ idx' = 0
    /\ attempted' = {}
    /\ outcome' = "none"
    /\ posts' = <<>>
    /\ img_url' = NoPath
    /\ errs' = {}
    /\ luckyHad' = <<>>

Init ==
    /\ job \in {"dear", "singapore", "lucky"}
    /\ clock = FirstInstant
    /\ pc = "idle"
    /\ NoRun
    /\ prevErrs = {}
    /\ store = EmptyStore
    /\ lucky = EmptyLucky

\* Time passes between two runs: the scheduler starts the next one at any
\* later instant.  Once the local date changes, the previous run is no
\* longer a run of the same date.
Tick ==
    /\ pc = "idle"
    /\ \E i \in Instants(job) :
          /\ i > clock
          /\ clock' = i
          /\ prevErrs' = IF StrfDate(get_now_ist(i)) = StrfDate(get_now_ist(clock))
                         THEN prevErrs ELSE {}
    /\ UNCHANGED <<job, pc, ist_now, today, current_slot, resp, db, needed,
                   pdf_links, idx, attempted, outcome, posts, img_url, errs,
                   store, lucky, luckyHad>>

\* Time passes between the two clock reads of one run: the requests in
\* between are bounded by their timeouts, so at most the next sampled
\* instant is reached.  The scripts read the clock only at their start and
\* in the planner, so time passing later in a run is not told apart from
\* time passing after it.
TickInRun ==
    /\ pc = "started"
    /\ \E i \in Instants(job) :
          /\ i > clock
          /\ \A j \in Instants(job) : j > clock => i <= j
          /\ clock' = i
          /\ prevErrs' = IF StrfDate(get_now_ist(i)) = StrfDate(get_now_ist(clock))
                         THEN prevErrs ELSE {}
    /\ UNCHANGED <<job, pc, ist_now, today, current_slot, resp, db, needed,
                   pdf_links, idx, attempted, outcome, posts, img_url, errs,
                   store, lucky, luckyHad>>

\* The process ends; the next invocation starts from nothing but the
\* remote state.
Exit ==
    /\ pc = "done"
    /\ pc' = "idle"
    /\ prevErrs' = IF today = StrfDate(get_now_ist(clock)) THEN errs ELSE {}
    /\ ResetRun
    /\ UNCHANGED <<job, clock, store, lucky>>

(* dear_crawler.py *)

\* main(): ist_now = get_now_ist(); today_str = ist_now.strftime(...)
DearStart ==
    /\ pc = "idle" /\ job = "dear"
    /\ ist_now' = get_now_ist(clock)
    /\ today' = StrfDate(get_now_ist(clock))
    /\ pc' = "started"
    /\ UNCHANGED <<job, clock, current_slot, resp, db, needed, pdf_links, idx,
                   attempted, outcome, posts, img_url, errs, prevErrs, store, lucky, luckyHad>>

\* main(): db = api_get_today_state(...); needed = get_needed_slots(db),
\* which reads the clock again; "if not needed: return".
DearPlan ==
    /\ pc = "started" /\ job = "dear"
    /\ \E r \in RunResponses(store, today) :
          LET d == DearApiGetTodayState(r, today)
              n == get_needed_slots(d, Hour(get_now_ist(clock)))
          IN  /\ resp' = RespKind(r, today)
              /\ db' = d
              /\ needed' = n
              /\ idx' = IF n = <<>> THEN 0 ELSE 1
              /\ pc' = IF n = <<>> THEN "done" ELSE "loop"
    /\ UNCHANGED <<job, clock, ist_now, today, current_slot, pdf_links,
                   attempted, outcome, posts, img_url, errs, prevErrs, store, lucky, luckyHad>>

\* Faulty variant, for comparison: an exception leaves the loop.
DearNextPcAbortOnError(o, i, n) ==
    IF i = n \/ o = "error" THEN "done" ELSE "loop"

\* Where main()'s loop goes after the iteration i of n that ended as o:
\* "except Exception" and "continue" both go on with the next slot.
DearNextPc(o, i, n) == IF i = n THEN "done" ELSE "loop"

\* main(): one iteration of "for slot in needed".
DearSlot ==
    /\ pc = "loop" /\ job = "dear"
    /\ \E env \in DearEnvs :
          LET slot == needed[idx]
              r == DearProcess(today, StrfDatePath(ist_now), slot, env, store)
          IN  /\ attempted' = attempted \cup {slot}
              /\ outcome' = r.outcome
              /\ posts' = r.posts
              /\ store' = r.store
              /\ img_url' = IF env.page = "img" THEN env.url ELSE NoPath
              /\ errs' = IF r.outcome = "error" THEN errs \cup {slot} ELSE errs
              /\ idx' = idx + 1
              /\ pc' = DearNextPc(r.outcome, idx, Len(needed))
    /\ UNCHANGED <<job, clock, ist_now, today, current_slot, resp, db, needed,
                   pdf_links, prevErrs, lucky, luckyHad>>

(* singapore_crawler.py *)

\* __main__: slot = detect_time_slot(); "Too early" when it is None.
SgDetect ==
    /\ pc = "idle" /\ job = "singapore"
    /\ current_slot' = detect_time_slot(get_now_ist(clock))
    /\ pc' = IF detect_time_slot(get_now_ist(clock)) = "None" THEN "idle"
             ELSE "started"
    /\ UNCHANGED <<job, clock, ist_now, today, resp, db, needed, pdf_links,
                   idx, attempted, outcome, posts, img_url, errs, prevErrs, store, lucky, luckyHad>>

\* crawl_and_process(current_slot), up to its loop: the second clock read,
\* the state query, the planner, "if not needed_slots: return", and the
\* listing page, whose failure ends the run.
SgPlan ==
    /\ pc = "started" /\ job = "singapore"
    /\ ist_now' = get_now_ist(clock)
    /\ today' = StrfDate(get_now_ist(clock))
    /\ \E r \in RunResponses(store, StrfDate(get_now_ist(clock))) :
       \E page \in BOOLEAN, links \in 0..Len(TIME_ORDER) :
          LET t == StrfDate(get_now_ist(clock))
              d == SgApiGetTodayState(r, t)
              n == slots_to_crawl(d, current_slot)
          IN  /\ resp' = RespKind(r, t)
              /\ db' = d
              /\ needed' = n
              /\ IF n = <<>>
                 THEN pc' = "done" /\ UNCHANGED <<outcome, pdf_links, idx>>
                 ELSE IF ~page
                 THEN /\ pc' = "done"
                      /\ outcome' = "listing_failed"
                      /\ UNCHANGED <<pdf_links, idx>>
                 ELSE /\ pc' = "loop"
                      /\ pdf_links' = links
                      /\ idx' = 1
                      /\ UNCHANGED outcome
    /\ UNCHANGED <<job, clock, current_slot, attempted, posts, img_url, errs,
                   prevErrs, store, lucky, luckyHad>>

\* Where crawl_and_process's loop goes after the iteration i of n that
\* ended as o.
SgNextPc(o, i, n) == IF i = n THEN "done" ELSE "loop"

\* crawl_and_process: one iteration of "for i, (label, slot) in
\* enumerate(TIME_ORDER)" (idx is i + 1).
SgIter ==
    /\ pc = "loop" /\ job = "singapore"
    /\ LET slot == TIME_ORDER[idx][2]
       IN  IF slot \notin Range(needed)
           THEN /\ outcome' = "not_needed"
                /\ posts' = <<>>
                /\ pc' = SgNextPc("not_needed", idx, Len(TIME_ORDER))
                /\ UNCHANGED <<attempted, errs, store>>
           ELSE IF idx - 1 >= pdf_links
           THEN /\ outcome' = "not_uploaded"
                /\ posts' = <<>>
                /\ attempted' = attempted \cup {slot}
                /\ pc' = SgNextPc("not_uploaded", idx, Len(TIME_ORDER))
                /\ UNCHANGED <<errs, store>>
           ELSE \E env \in SgEnvs :
                   LET r == SgProcess(today, slot, env, store)
                   IN  /\ outcome' = r.outcome
                       /\ posts' = r.posts
                       /\ store' = r.store
                       /\ attempted' = attempted \cup {slot}
                       /\ errs' = IF r.outcome = "error"
                                  THEN errs \cup {slot} ELSE errs
                       /\ pc' = SgNextPc(r.outcome, idx, Len(TIME_ORDER))
    /\ idx' = idx + 1
    /\ UNCHANGED <<job, clock, ist_now, today, current_slot, resp, db, needed,
                   pdf_links, img_url, prevErrs, lucky, luckyHad>>

(* lucky_number_updater.py *)

\* update_numbers(): ist_now = get_now_ist(); today_str = ...
LuckyStart ==
    /\ pc = "idle" /\ job = "lucky"
    /\ ist_now' = get_now_ist(clock)
    /\ today' = StrfDate(get_now_ist(clock))
    /\ idx' = 1
    /\ pc' = "loop"
    /\ UNCHANGED <<job, clock, current_slot, resp, db, needed, pdf_links,
                   attempted, outcome, posts, img_url, errs, prevErrs, store, lucky, luckyHad>>

\* update_numbers(): one iteration of "for lotto_type in TYPES".
LuckyIter ==
    /\ pc = "loop" /\ job = "lucky"
    /\ LET type == TYPES[idx]
       IN  /\ luckyHad' = lucky[today][type]
           /\ \E r \in LuckyResponses(lucky[today][type]) :
                 IF check_if_exists(r)
                 THEN /\ outcome' = "skipped"
                      /\ posts' = <<>>
                      /\ UNCHANGED lucky
                 ELSE \E draw \in LuckyDraws, accept \in BOOLEAN :
                         LET value == generate_lucky_string(draw)
                         IN  /\ posts' = <<LuckyPost(type, today, value)>>
                             /\ outcome' = IF accept THEN "ok" ELSE "error"
                             /\ lucky' = IF accept
                                         THEN [lucky EXCEPT
                                                  ![today][type] = value]
                                         ELSE lucky
    /\ idx' = idx + 1
    /\ pc' = IF idx = Len(TYPES) THEN "done" ELSE "loop"
    /\ UNCHANGED <<job, clock, ist_now, today, current_slot, resp, db, needed,
                   pdf_links, attempted, img_url, errs, prevErrs,
                   store>>

Next ==
    \/ Tick
    \/ TickInRun
    \/ Exit
    \/ DearStart
    \/ DearPlan
    \/ DearSlot
    \/ SgDetect
    \/ SgPlan
    \/ SgIter
    \/ LuckyStart
    \/ LuckyIter

Spec == Init /\ [][Next]_vars

---------------------------------------------------------------------------
(* The state fetchers and the planners on their own: every sampled minute  *)
(* of a day, every day record, every answer of the API.                    *)

\* Minutes of the hour the planner model samples: both sides of the half
\* hour the sequential thresholds fall on, and both ends of the hour.
PlanMinutes == {0, 29, 30, 59}

PlanInstants ==
    {FirstInstant + h * 60 + m : h \in 0..23, m \in PlanMinutes}

\* The remote records the planner model starts from: any record for day 0,
\* and for each other day none or one with the morning value.
PlanValues == {PLACEHOLDER} \cup {Suffix(n, 3) : n \in DearNumbers \cup SgNumbers}
PlanStores ==
    {st \in [Dates -> [Slots -> PlanValues]] :
        \A t \in Dates \ {Ymd(0)} :
            st[t].day = PLACEHOLDER /\ st[t].evn = PLACEHOLDER}

PlanInit ==
    /\ job \in {"dear", "singapore"}
    /\ clock \in PlanInstants
    /\ store \in PlanStores
    /\ pc = "idle"
    /\ NoRun
    /\ prevErrs = {}
    /\ lucky = EmptyLucky

\* __main__ of singapore_crawler.py: detect_time_slot()
PlanDetect ==
    /\ pc = "idle" /\ job = "singapore"
    /\ current_slot' = detect_time_slot(get_now_ist(clock))
    /\ pc' = IF detect_time_slot(get_now_ist(clock)) = "None" THEN "too_early"
             ELSE "detected"
    /\ UNCHANGED <<job, clock, ist_now, today, resp, db, needed, pdf_links,
                   idx, attempted, outcome, posts, img_url, errs, prevErrs,
                   store, lucky, luckyHad>>

\* db = api_get_today_state(session, today), of either script
PlanFetch ==
    /\ \/ pc = "idle" /\ job = "dear"
       \/ pc = "detected" /\ job = "singapore"
    /\ ist_now' = get_now_ist(clock)
    /\ today' = StrfDate(get_now_ist(clock))
    /\ \E r \in StateResponses(store, StrfDate(get_now_ist(clock))) :
          /\ resp' = RespKind(r, StrfDate(get_now_ist(clock)))
          /\ db' = IF job = "dear"
                   THEN DearApiGetTodayState(r, StrfDate(get_now_ist(clock)))
                   ELSE SgApiGetTodayState(r, StrfDate(get_now_ist(clock)))
    /\ pc' = "fetched"
    /\ UNCHANGED <<job, clock, current_slot, needed, pdf_links, idx, attempted,
                   outcome, posts, img_url, errs, prevErrs, store, lucky,
                   luckyHad>>

\* needed = get_needed_slots(db)
PlanCumulative ==
    /\ pc = "fetched" /\ job = "dear"
    /\ needed' = get_needed_slots(db, Hour(get_now_ist(clock)))
    /\ pc' = "planned"
    /\ UNCHANGED <<job, clock, ist_now, today, current_slot, resp, db,
                   pdf_links, idx, attempted, outcome, posts, img_url, errs,
                   prevErrs, store, lucky, luckyHad>>

\* needed_slots = slots_to_crawl(db, current_slot)
PlanSequential ==
    /\ pc = "fetched" /\ job = "singapore"
    /\ needed' = slots_to_crawl(db, current_slot)
    /\ pc' = "planned"
    /\ UNCHANGED <<job, clock, ist_now, today, current_slot, resp, db,
                   pdf_links, idx, attempted, outcome, posts, img_url, errs,
                   prevErrs, store, lucky, luckyHad>>

PlanNext ==
    \/ PlanDetect
    \/ PlanFetch
    \/ PlanCumulative
    \/ PlanSequential

PlanSpec == PlanInit /\ [][PlanNext]_vars

---------------------------------------------------------------------------
(* Properties. *)

Planned == pc \in {"loop", "done"}
LocalHour == Hour(get_now_ist(clock))
LocalMinuteOfDay == get_now_ist(clock) % MinutesPerDay

\* The slot the last loop iteration of a crawler was about.
LastSlot == IF job = "dear" THEN needed[idx - 1] ELSE TIME_ORDER[idx - 1][2]

\* Whether slot s is eligible at the planner's clock read of this run.
Eligible(s) ==
    IF job = "dear" THEN LocalHour >= SLOT_CONFIG[s].hour
    ELSE SlotIndex(s) <= SlotIndex(current_slot)

\* C1: neither planner returns a slot whose recorded value is not the
\* placeholder: every slot of the planned list has db[slot] = "-".
C1_NeededOnlyPlaceholders ==
    pc = "planned" => \A s \in Range(needed) : db[s] = PLACEHOLDER

\* C1 witness: at or after 20:00 the cumulative planner was handed a record
\* with a recorded morning value and left mor out of a non-empty plan.
C1_Witness ==
    /\ pc = "planned" /\ job = "dear"
    /\ LocalHour >= 20
    /\ db.mor \notin {PLACEHOLDER, NONE}
    /\ needed = <<"day", "evn">>

\* C2: a slot whose processing raised in the previous run of the same date,
\* and that is still eligible, is planned again by this run (stated for
\* the runs whose state query reported every slot).
C2_ErroredSlotIsRetried ==
    (job \in {"dear", "singapore"} /\ Planned
        /\ \A s \in Slots : db[s] # NONE) =>
        \A s \in prevErrs : Eligible(s) => s \in Range(needed)

\* C3: every digit-upsert payload carries the run's date, a suffix of the
\* extracted number under the target slot, and the placeholder under the
\* other two slots, on each of the three endpoints of both scripts.
C3_PayloadOnlyTargetSlot ==
    \A k \in 1..Len(posts) :
        posts[k].api \in Range(DearEndpoints) \cup Range(SgApis) =>
            /\ posts[k].api = (IF job = "dear" THEN DearEndpoints ELSE SgApis)[k]
            /\ posts[k].payload.date = today
            /\ posts[k].payload[LastSlot] \in
                  {Suffix(n, k) : n \in IF job = "dear" THEN DearNumbers
                                        ELSE SgNumbers}
            /\ \A s \in Slots \ {LastSlot} :
                  posts[k].payload[s] = PLACEHOLDER

\* C3 witness: the singapore script published all three digit payloads and
\* the snapshot for a slot while the day's record already held another
\* slot's value.
C3_Witness ==
    /\ job = "singapore" /\ outcome = "ok" /\ Len(posts) = 4
    /\ \E s \in Slots \ {LastSlot} : store[today][s] # PLACEHOLDER

\* C4: a run that reached its loop ends with every needed slot attempted,
\* whatever happened to the slots before it.
C4_ErrorDoesNotAbortBatch ==
    (job \in {"dear", "singapore"} /\ pc = "done"
        /\ outcome # "listing_failed") => attempted = Range(needed)

\* C4 witness: a finished run of the image flow in which a slot raised and
\* a later slot was attempted all the same.
C4_Witness ==
    /\ job = "dear" /\ pc = "done"
    /\ \E s \in errs : \E s2 \in attempted : SlotIndex(s2) > SlotIndex(s)

\* C5: the record handed to the planner maps every slot to the placeholder
\* or to the recorded value, and is the all-placeholder record for today
\* when the API answered with an error or with a list without today.
C5_RecordIsTotal ==
    pc \in {"fetched", "planned"} =>
        /\ \A s \in Slots : db[s] \in {PLACEHOLDER, store[today][s]}
        /\ resp \in {"error", "notfound", "list_miss"} =>
              db = FreshRecord(today)

\* C6: the sequential planner returns no slot after the current slot in
\* the declared order.
C6_NothingBeyondCurrentSlot ==
    (pc = "planned" /\ job = "singapore") =>
        \A s \in Range(needed) : SlotIndex(s) <= SlotIndex(current_slot)

\* C6 witness: in the morning window, with day and evn still placeholders,
\* the plan is mor alone.
C6_Witness ==
    /\ pc = "planned" /\ job = "singapore"
    /\ current_slot = "mor"
    /\ db.day = PLACEHOLDER /\ db.evn = PLACEHOLDER
    /\ needed = <<"mor">>

\* C7: the cumulative planner returns exactly the slots whose eligibility
\* hour (13, 18, 20) has been reached and whose value is the placeholder,
\* in the order mor, day, evn.
C7_CumulativePlan ==
    (pc = "planned" /\ job = "dear") =>
        /\ \A s \in Slots :
              s \in Range(needed) <=>
                  (LocalHour >= SLOT_CONFIG[s].hour /\ db[s] = PLACEHOLDER)
        /\ \A i, j \in 1..Len(needed) :
              i < j => SlotIndex(needed[i]) < SlotIndex(needed[j])

\* C7 witness: at 18:00 sharp with nothing recorded the plan is mor, day.
C7_Witness ==
    /\ pc = "planned" /\ job = "dear"
    /\ LocalHour = 18 /\ LocalMinuteOfDay = 18 * 60
    /\ \A s \in Slots : db[s] = PLACEHOLDER
    /\ needed = <<"mor", "day">>

\* C8: in the image flow, a located image URL without the run date's
\* year/month folder makes the slot a skip: nothing is posted for it, and
\* the loop goes on with the next needed slot.
C8_StaleImageIsSkipped ==
    (job = "dear" /\ img_url # NoPath /\ img_url # StrfDatePath(ist_now)) =>
        /\ outcome = "stale"
        /\ posts = <<>>
        /\ pc = (IF idx <= Len(needed) THEN "loop" ELSE "done")

\* C8 witness: on 2026-02-01 the image URL shows /2026/01/, the slot is
\* skipped and a further slot is still to be processed.
C8_Witness ==
    /\ job = "dear" /\ outcome = "stale" /\ pc = "loop"
    /\ img_url = [y |-> 2026, m |-> 1]
    /\ today = [y |-> 2026, m |-> 2, d |-> 1]
    /\ idx <= Len(needed)

\* C9: update_numbers posts nothing for a category whose remote record for
\* today already held a non-empty lucky value.
C9_NoPostOverExistingValue ==
    (job = "lucky" /\ posts # <<>>) => luckyHad = <<>>

\* C10: in the sequential flow nothing is published under the run's date
\* for a slot whose threshold has not yet passed on that date.
C10_NoSlotBeforeItsThreshold ==
    (job = "singapore" /\ posts # <<>>) =>
        /\ StrfDate(get_now_ist(clock)) = today
        /\ LocalMinuteOfDay >= SgThreshold[LastSlot]

====
